---- MODULE Spec2Model ----
(***************************************************************************)
(* A state-machine model of kusanagi's EpisodicLearner                     *)
(* (src/ghost/learners/EpisodicLearner.py): construction with checkpoint   *)
(* load and resume-from-iteration, the rollout loop apply_controller, the  *)
(* optimizer dispatch train_policy with its loss callback, save and stop.  *)
(*                                                                         *)
(* Policy parameters are abstract points of Params; the value functional   *)
(* self.value() is a function value_fn from Params to Vals.  The optimizer *)
(* (scipy.optimize.minimize, the lasagne update rule) is a black box: it   *)
(* may evaluate, return or move to any point of Params.  Times (H, dt,     *)
(* plant time) are counted in ticks; H/dt is the exact quotient (the code  *)
(* divides floats), so ceil(H/dt) is H_steps(H, dt).                       *)
(*                                                                         *)
(* The last section models PDDP.train_policy and the scans of              *)
(* PDDP.forward_backwards (src/kusanagi/ghost/algorithms/PDDP/pddp.py).    *)
(***************************************************************************)
EXTENDS Integers, Sequences, FiniteSets, TLC

\* ------------------------------------------------------------------ bounds
MaxParam == 2
MaxVal == 1
MaxEvals == 2
MaxIter == 2
MaxH == 2
MaxDt == 2
MaxEpisodes == 2
MaxSaves == 2
MaxRuns == 2

\* ----------------------------------------------------------------- domains
Params == 1..MaxParam
Vals == 0..MaxVal

\* line 17: DETERMINISTIC_MIN_METHODS, in the order of the list
DETERMINISTIC_MIN_METHODS == <<"L-BFGS-B", "TNC", "BFGS", "SLSQP", "CG">>

\* lines 18-25: the keys of STOCHASTIC_MIN_METHODS
STOCHASTIC_MIN_METHODS ==
    {"SGD", "MOMENTUM", "NESTEROV", "NESTEROV_MOMENTUM",
     "ADAGRAD", "RMSPROP", "ADADELTA", "ADAM"}

Range(s) == {s[k] : k \in 1..Len(s)}

\* the Python slice s[:n], for n >= 0
Slice(s, n) == SubSeq(s, 1, IF n < Len(s) THEN n ELSE Len(s))

\* line 258: self.min_method.upper(), on the method names the model configures
upper(m) ==
    CASE m = "bfgs" -> "BFGS"
      [] m = "l-bfgs-b" -> "L-BFGS-B"
      [] m = "adam" -> "ADAM"
      [] OTHER -> m

VARIABLES
    params,             \* the constructor's arguments and params dictionary
    value_fn,           \* the value functional self.value(), per parameter point
    pc,                 \* where the learner's single control thread is
    loc,                \* the locals of the running handler
    policy,             \* self.policy's parameters
    n_episodes,         \* self.n_episodes
    H,                  \* self.H
    learning_iteration, \* self.learning_iteration
    n_evals,            \* self.n_evals
    state_changed,      \* self.state_changed
    best_p,             \* self.best_p = [v, p]
    evaluate_cost,      \* whether the attribute self.evaluate_cost is bound
    train_fn,           \* whether the attribute self.train_fn is bound
    experience,         \* self.experience
    plant,              \* self.plant
    viz,                \* self.viz: "none", "idle", "running", "stopped"
    disk,               \* the files of the run output directory
    trained,            \* how many train_policy calls of this run have returned
    pddp,               \* the attributes PDDP adds: trajectory_jac_fn (bound or not), lop
    log                 \* what the running (or last) call printed and how it ended

vars == <<pddp, params, value_fn, pc, loc, policy, n_episodes, H, learning_iteration,
          n_evals, state_changed, best_p, evaluate_cost, train_fn, experience,
          plant, viz, disk, trained, log>>

NoLocals == [handler |-> "none"]
NoPddp == [trajectory_jac_fn |-> FALSE, lop |-> FALSE]
NoBest == [set |-> FALSE, v |-> 0, p |-> 1]
NoLog == [op |-> "none", outcome |-> "none", initial |-> 0, seen |-> {},
          attempts |-> <<>>, calls |-> 0, final |-> 1, horizon |-> 0,
          random |-> FALSE]

\* ------------------------------------------------------------ train_policy

\* lines 266-269: the configured method, then the methods of the list not yet in it
\* (MinMethods_Dup is the variant that appends the whole list, duplicates included)
MinMethods_Dup(min_method) ==
    <<min_method>> \o DETERMINISTIC_MIN_METHODS

RECURSIVE AppendMissing(_, _)
AppendMissing(min_methods, k) ==
    IF k > Len(DETERMINISTIC_MIN_METHODS) THEN min_methods
    ELSE IF DETERMINISTIC_MIN_METHODS[k] \notin Range(min_methods)
         THEN AppendMissing(Append(min_methods, DETERMINISTIC_MIN_METHODS[k]), k + 1)
         ELSE AppendMissing(min_methods, k + 1)

MinMethods(min_method) == AppendMissing(<<min_method>>, 1)

\* lines 247-257: H, the counters, the baseline value and the first best_p
\* (TrainBaseline_NoReset is the variant that keeps n_evals of the previous call)
TrainBaseline_NoReset(Harg) ==
    /\ pc = "idle"
    /\ learning_iteration < MaxIter
    /\ H' = IF Harg.given THEN Harg.H ELSE H
    /\ learning_iteration' = learning_iteration + 1
    /\ n_evals' = n_evals
    /\ best_p' = [set |-> TRUE, v |-> value_fn[policy], p |-> policy]

TrainBaseline(Harg) ==
    /\ pc = "idle"
    /\ learning_iteration < MaxIter
    /\ H' = IF Harg.given THEN Harg.H ELSE H
    /\ learning_iteration' = learning_iteration + 1
    /\ n_evals' = 0
    /\ best_p' = [set |-> TRUE, v |-> value_fn[policy], p |-> policy]

TrainLog(outcome) ==
    [op |-> "train_policy", outcome |-> outcome, initial |-> value_fn[policy],
     seen |-> {policy}, attempts |-> <<>>, calls |-> 0, final |-> policy,
     horizon |-> 0, random |-> FALSE]

\* the arguments H = None and H = h of train_policy and apply_controller
NoH == [given |-> FALSE, H |-> 0]

GivenH(horizons) == {[given |-> TRUE, H |-> h] : h \in horizons}

\* lines 246-270: a deterministic method is configured
TrainStartDet ==
    \E Harg \in params.driver.train_H :
        /\ upper(params.min_method) \in Range(DETERMINISTIC_MIN_METHODS)
        /\ TrainBaseline(Harg)
        /\ loc' = [handler |-> "train_policy", v0 |-> value_fn[policy], p0 |-> policy,
                   min_methods |-> MinMethods(upper(params.min_method)), i |-> 1]
        /\ pc' = "train_det"
        /\ log' = TrainLog("running")
        /\ UNCHANGED <<pddp, params, trained, value_fn, policy, n_episodes, state_changed,
                       evaluate_cost, train_fn, experience, plant, viz, disk>>

\* lines 246-258, 293-305: a stochastic method is configured
TrainStartStoch ==
    \E Harg \in params.driver.train_H :
        /\ upper(params.min_method) \notin Range(DETERMINISTIC_MIN_METHODS)
        /\ upper(params.min_method) \in STOCHASTIC_MIN_METHODS
        /\ TrainBaseline(Harg)
        /\ train_fn' = TRUE
        /\ loc' = [handler |-> "train_policy", i |-> 0]
        /\ pc' = "train_stoch"
        /\ log' = TrainLog("running")
        /\ UNCHANGED <<pddp, params, trained, value_fn, policy, n_episodes, state_changed,
                       evaluate_cost, experience, plant, viz, disk>>

\* lines 246-258, 316-319: the method is in neither family
TrainStartUnknown ==
    \E Harg \in params.driver.train_H :
        /\ upper(params.min_method) \notin Range(DETERMINISTIC_MIN_METHODS)
        /\ upper(params.min_method) \notin STOCHASTIC_MIN_METHODS
        /\ TrainBaseline(Harg)
        /\ loc' = NoLocals
        /\ pc' = "raised"
        /\ log' = TrainLog("ValueError")
        /\ UNCHANGED <<pddp, params, trained, value_fn, policy, n_episodes, state_changed,
                       evaluate_cost, train_fn, experience, plant, viz, disk>>

\* lines 272-280: attempt i starts: minimize is called from wrap_params(p0)
DetAttempt ==
    /\ pc = "train_det"
    /\ loc.i <= Len(loc.min_methods)
    /\ log' = [log EXCEPT !.attempts =
                  Append(@, [method |-> loc.min_methods[loc.i], x0 |-> loc.p0,
                             result |-> "running"])]
    /\ pc' = "minimize"
    /\ UNCHANGED <<pddp, params, trained, value_fn, loc, policy, n_episodes, H, learning_iteration,
                   n_evals, state_changed, best_p, evaluate_cost, train_fn,
                   experience, plant, viz, disk>>

\* lines 323-337: the optimizer evaluates loss at a point x of its choice
\* (loss_OnTie is the variant whose test at line 332 is v <= self.best_p[0])
loss_OnTie(x) ==
    /\ pc = "minimize"
    /\ n_evals < params.max_evals
    /\ policy' = x
    /\ best_p' = IF value_fn[x] <= best_p.v
                 THEN [set |-> TRUE, v |-> value_fn[x], p |-> x]
                 ELSE best_p
    /\ n_evals' = n_evals + 1
    /\ log' = [log EXCEPT !.seen = @ \cup {x}, !.calls = @ + 1]
    /\ UNCHANGED <<pddp, params, trained, value_fn, pc, loc, n_episodes, H, learning_iteration,
                   state_changed, evaluate_cost, train_fn, experience, plant, viz, disk>>

loss(x) ==
    /\ pc = "minimize"
    /\ n_evals < params.max_evals
    /\ policy' = x
    /\ best_p' = IF value_fn[x] < best_p.v
                 THEN [set |-> TRUE, v |-> value_fn[x], p |-> x]
                 ELSE best_p
    /\ n_evals' = n_evals + 1
    /\ log' = [log EXCEPT !.seen = @ \cup {x}, !.calls = @ + 1]
    /\ UNCHANGED <<pddp, params, trained, value_fn, pc, loc, n_episodes, H, learning_iteration,
                   state_changed, evaluate_cost, train_fn, experience, plant, viz, disk>>

LossEval == \E x \in params.points : loss(x)

SetResult(attempts, result) ==
    [attempts EXCEPT ![Len(attempts)].result = result]

\* lines 281-283, 289-291, 321: minimize returns opt_res.x = x; the loop is left
MinimizeReturn(x) ==
    /\ pc = "minimize"
    /\ policy' = x
    /\ log' = [log EXCEPT !.attempts = SetResult(@, "ok"), !.outcome = "returned"]
    /\ state_changed' = TRUE
    /\ trained' = trained + 1
    /\ loc' = NoLocals
    /\ pc' = "idle"
    /\ UNCHANGED <<pddp, params, value_fn, n_episodes, H, learning_iteration, n_evals,
                   best_p, evaluate_cost, train_fn, experience, plant, viz, disk>>

MinimizeSuccess == \E x \in params.points : MinimizeReturn(x)

\* lines 284-287: minimize raises ValueError; best_p is restored and the loop goes on
\* (MinimizeRaise_NoRestore is the variant that leaves the policy where the failed
\* optimizer put it)
MinimizeRaise_NoRestore ==
    /\ pc = "minimize"
    /\ log' = [log EXCEPT !.attempts = SetResult(@, "failed")]
    /\ loc' = [loc EXCEPT !.i = @ + 1]
    /\ policy' = policy
    /\ pc' = "train_det"
    /\ UNCHANGED <<pddp, params, trained, value_fn, n_episodes, H, learning_iteration, n_evals,
                   state_changed, best_p, evaluate_cost, train_fn, experience,
                   plant, viz, disk>>

MinimizeRaise ==
    /\ pc = "minimize"
    /\ log' = [log EXCEPT !.attempts = SetResult(@, "failed")]
    /\ loc' = [loc EXCEPT !.v0 = best_p.v, !.p0 = best_p.p, !.i = @ + 1]
    /\ policy' = best_p.p
    /\ pc' = "train_det"
    /\ UNCHANGED <<pddp, params, trained, value_fn, n_episodes, H, learning_iteration, n_evals,
                   state_changed, best_p, evaluate_cost, train_fn, experience,
                   plant, viz, disk>>

\* lines 272, 289-291, 321: every method of min_methods was tried and failed
DetExhausted ==
    /\ pc = "train_det"
    /\ loc.i > Len(loc.min_methods)
    /\ log' = [log EXCEPT !.outcome = "returned"]
    /\ state_changed' = TRUE
    /\ trained' = trained + 1
    /\ loc' = NoLocals
    /\ pc' = "idle"
    /\ UNCHANGED <<pddp, params, value_fn, policy, n_episodes, H, learning_iteration,
                   n_evals, best_p, evaluate_cost, train_fn, experience, plant,
                   viz, disk>>

\* lines 307-315: one pass of the training loop; train_fn returns the value of the
\* current parameters and then applies the update, which moves them to pnext
StochUpdate(pnext) ==
    /\ pc = "train_stoch"
    /\ loc.i < params.max_evals
    /\ policy' = pnext
    /\ best_p' = IF value_fn[policy] < best_p.v
                 THEN [set |-> TRUE, v |-> value_fn[policy], p |-> pnext]
                 ELSE best_p
    /\ n_evals' = n_evals + 1
    /\ loc' = [loc EXCEPT !.i = @ + 1]
    /\ log' = [log EXCEPT !.seen = @ \cup {policy}, !.calls = @ + 1, !.final = pnext]
    /\ UNCHANGED <<pddp, params, trained, value_fn, pc, n_episodes, H, learning_iteration,
                   state_changed, evaluate_cost, train_fn, experience, plant, viz, disk>>

StochStep == \E pnext \in params.points : StochUpdate(pnext)

\* lines 307, 321: the budget is spent
StochDone ==
    /\ pc = "train_stoch"
    /\ loc.i >= params.max_evals
    /\ log' = [log EXCEPT !.outcome = "returned"]
    /\ state_changed' = TRUE
    /\ trained' = trained + 1
    /\ loc' = NoLocals
    /\ pc' = "idle"
    /\ UNCHANGED <<pddp, params, value_fn, policy, n_episodes, H, learning_iteration,
                   n_evals, best_p, evaluate_cost, train_fn, experience, plant,
                   viz, disk>>

\* ------------------------------------------------------- ExperienceDataset
\* The class is imported (line 14) and its source is not at hand: the buffer is
\* modelled from its contract.  The four time-aligned arrays hold one list per
\* episode; episode_labels holds one label per episode.

EmptyExperience(has_history) ==
    [time_stamps |-> <<>>, states |-> <<>>, actions |-> <<>>,
     immediate_cost |-> <<>>, episode_labels |-> <<>>, random |-> <<>>,
     curr_episode |-> -1,
     has_policy_history |-> has_history, policy_history |-> <<>>]

\* new_episode(random, learning_iteration): opens an empty episode with its tags
new_episode(e, random_controls, iteration) ==
    [e EXCEPT !.time_stamps = Append(@, <<>>),
              !.states = Append(@, <<>>),
              !.actions = Append(@, <<>>),
              !.immediate_cost = Append(@, <<>>),
              !.episode_labels = Append(@, iteration),
              !.random = Append(@, random_controls),
              !.curr_episode = @ + 1]

\* add_sample(t, x_t, u_t, c_t): appends one time step to the current episode
add_sample(e, t, x_t, u_t, c_t) ==
    [e EXCEPT !.time_stamps[e.curr_episode + 1] = Append(@, t),
              !.states[e.curr_episode + 1] = Append(@, x_t),
              !.actions[e.curr_episode + 1] = Append(@, u_t),
              !.immediate_cost[e.curr_episode + 1] = Append(@, c_t)]

\* -------------------------------------------------------- apply_controller

\* line 188: int(np.ceil(H/self.plant.dt))
H_steps(horizon, dt) == (horizon + dt - 1) \div dt

\* lines 210-212: the time slept after a pass that took exec_time
\* (SleepTime_WholeStep is the variant that sleeps dt whatever the pass took)
SleepTime_WholeStep(exec_time, dt) == IF exec_time < dt THEN dt ELSE 0

SleepTime(exec_time, dt) == IF exec_time < dt THEN dt - exec_time ELSE 0

\* lines 171-177: the episode is opened, the plant and the visualization started
RolloutOpen(random_controls) ==
    /\ pc = "idle"
    /\ n_episodes < MaxEpisodes
    /\ Len(experience.episode_labels) < MaxEpisodes
    /\ experience' = new_episode(experience, random_controls, learning_iteration)
    /\ viz' = IF viz = "none" THEN "none" ELSE "running"

\* lines 160-182: the plant has no noise covariance: np.linalg.cholesky raises
ApplyStartNoNoise ==
    \E Harg \in params.driver.apply_H, random_controls \in params.driver.random :
        /\ RolloutOpen(random_controls)
        /\ ~plant.noise
        /\ plant' = [plant EXCEPT !.running = params.async_plant \/ @,
                                  !.steps = 0, !.done = FALSE]
        /\ pc' = "raised"
        /\ loc' = NoLocals
        /\ log' = [NoLog EXCEPT !.op = "apply_controller", !.outcome = "LinAlgError",
                                !.horizon = IF Harg.given THEN Harg.H ELSE H,
                                !.random = random_controls]
        /\ UNCHANGED <<pddp, params, trained, value_fn, policy, n_episodes, H, learning_iteration,
                       n_evals, state_changed, best_p, evaluate_cost, train_fn, disk>>

\* lines 160-188: the rollout starts from the (noisy) state of the plant
ApplyStart ==
    \E Harg \in params.driver.apply_H, random_controls \in params.driver.random :
        /\ RolloutOpen(random_controls)
        /\ plant.noise
        /\ plant' = [plant EXCEPT !.running = params.async_plant \/ @,
                                  !.steps = 0, !.done = FALSE]
        /\ loc' = [handler |-> "apply_controller",
                   H |-> IF Harg.given THEN Harg.H ELSE H,
                   H_steps |-> H_steps(IF Harg.given THEN Harg.H ELSE H, plant.dt),
                   i |-> 0, u_t |-> "unbound",
                   random_controls |-> random_controls,
                   x_t |-> [x |-> 0, noisy |-> TRUE], t |-> plant.t,
                   exec_time |-> 0, slept |-> 0, interval |-> 0]
        /\ pc' = "rollout"
        /\ log' = [NoLog EXCEPT !.op = "apply_controller", !.outcome = "running",
                                !.horizon = IF Harg.given THEN Harg.H ELSE H,
                                !.random = random_controls]
        /\ UNCHANGED <<pddp, params, trained, value_fn, policy, n_episodes, H, learning_iteration,
                       n_evals, state_changed, best_p, evaluate_cost, train_fn, disk>>

\* whether the list of the current episode exists in the time-aligned arrays
CurrentEpisodeExists ==
    /\ experience.curr_episode >= 0
    /\ experience.curr_episode < Len(experience.time_stamps)

\* lines 191-202: the attribute evaluate_cost was never bound (AttributeError), or
\* add_sample indexes an episode the arrays do not hold (IndexError)
RolloutStepRaise ==
    /\ pc = "rollout"
    /\ loc.i < loc.H_steps
    /\ ~evaluate_cost \/ ~CurrentEpisodeExists
    /\ pc' = "raised"
    /\ loc' = NoLocals
    /\ log' = [log EXCEPT !.outcome = IF ~evaluate_cost THEN "AttributeError"
                                      ELSE "IndexError"]
    /\ UNCHANGED <<pddp, params, trained, value_fn, policy, n_episodes, H, learning_iteration,
                   n_evals, state_changed, best_p, evaluate_cost, train_fn,
                   experience, plant, viz, disk>>

\* lines 191-225: one pass of the loop: the sample is recorded, the plant advances
\* by dt, its state is read again, and the loop is left if the plant is done
RolloutStep ==
    /\ pc = "rollout"
    /\ loc.i < loc.H_steps
    /\ evaluate_cost
    /\ CurrentEpisodeExists
    /\ \E c \in params.compute :
          loc' = [loc EXCEPT !.i = @ + 1,
                             !.u_t = IF loc.random_controls THEN "random" ELSE "policy",
                             !.x_t = [x |-> plant.steps + 1, noisy |-> TRUE],
                             !.t = plant.t + plant.dt,
                             !.exec_time = c,
                             !.slept = SleepTime(c, plant.dt),
                             !.interval = c + SleepTime(c, plant.dt)]
    /\ experience' = add_sample(experience, loc.t, loc.x_t,
                                IF loc.random_controls THEN "random" ELSE "policy",
                                "cost")
    /\ plant' = [plant EXCEPT !.t = @ + plant.dt, !.steps = @ + 1,
                              !.done = plant.finite /\ plant.steps + 1 >= plant.done_after]
    /\ pc' = IF plant'.done THEN "rollout_break" ELSE "rollout"
    /\ UNCHANGED <<pddp, params, trained, value_fn, policy, n_episodes, H, learning_iteration,
                   n_evals, state_changed, best_p, evaluate_cost, train_fn,
                   viz, disk, log>>

LoopOver == (pc = "rollout" /\ loc.i >= loc.H_steps) \/ pc = "rollout_break"

\* lines 226-228: the loop never ran, so u_t is unbound: UnboundLocalError
RolloutEndUnbound ==
    /\ LoopOver
    /\ loc.u_t = "unbound"
    /\ pc' = "raised"
    /\ loc' = NoLocals
    /\ log' = [log EXCEPT !.outcome = "UnboundLocalError"]
    /\ UNCHANGED <<pddp, params, trained, value_fn, policy, n_episodes, H, learning_iteration,
                   n_evals, state_changed, best_p, evaluate_cost, train_fn,
                   experience, plant, viz, disk>>

\* lines 226-244: the terminal sample, then the plant and the visualization stop
\* (RolloutEnd_NoStop is the variant without lines 240-242)
RolloutEnd_NoStop ==
    /\ LoopOver
    /\ loc.u_t # "unbound"
    /\ evaluate_cost
    /\ experience' = add_sample(experience, loc.t, loc.x_t, "zero", "cost")
    /\ n_episodes' = n_episodes + 1
    /\ pc' = "idle"
    /\ loc' = NoLocals
    /\ log' = [log EXCEPT !.outcome = "returned"]
    /\ UNCHANGED <<pddp, params, trained, value_fn, policy, H, learning_iteration, n_evals,
                   state_changed, best_p, evaluate_cost, train_fn, disk, plant, viz>>

RolloutEnd ==
    /\ LoopOver
    /\ loc.u_t # "unbound"
    /\ evaluate_cost
    /\ experience' = add_sample(experience, loc.t, loc.x_t, "zero", "cost")
    /\ plant' = [plant EXCEPT !.running = FALSE]
    /\ viz' = IF viz = "none" THEN "none" ELSE "stopped"
    /\ n_episodes' = n_episodes + 1
    /\ pc' = "idle"
    /\ loc' = NoLocals
    /\ log' = [log EXCEPT !.outcome = "returned"]
    /\ UNCHANGED <<pddp, params, trained, value_fn, policy, H, learning_iteration, n_evals,
                   state_changed, best_p, evaluate_cost, train_fn, disk>>

\* ------------------------------------------------------------- save, stop

\* lines 140-141: get_state(); angle_idims, async_plant, cost and discount are the
\* configuration's and are the same in every snapshot
get_state ==
    [n_episodes |-> n_episodes, H |-> H,
     learning_iteration |-> learning_iteration, n_evals |-> n_evals]

NoFile == [exists |-> FALSE]

\* lines 106-120: save()
\* (save_KeepDirty is the variant that does not clear state_changed at line 120)
save_KeepDirty ==
    /\ pc = "idle"
    /\ Len(experience.policy_history) < MaxSaves
    /\ experience' = IF experience.has_policy_history
                     THEN [experience EXCEPT !.policy_history = Append(@, policy)]
                     ELSE experience
    /\ disk' = [policy |-> [exists |-> TRUE, p |-> policy],
                experience |-> [exists |-> TRUE, e |-> experience'],
                state |-> IF state_changed
                          THEN [exists |-> TRUE, s |-> get_state]
                          ELSE disk.state]
    /\ state_changed' = state_changed
    /\ log' = [NoLog EXCEPT !.op = "save", !.outcome = "returned"]
    /\ UNCHANGED <<pddp, params, trained, value_fn, pc, loc, policy, n_episodes, H,
                   learning_iteration, n_evals, best_p, evaluate_cost, train_fn,
                   plant, viz>>

save ==
    /\ pc = "idle"
    /\ Len(experience.policy_history) < MaxSaves
    /\ experience' = IF experience.has_policy_history
                     THEN [experience EXCEPT !.policy_history = Append(@, policy)]
                     ELSE experience
    /\ disk' = [policy |-> [exists |-> TRUE, p |-> policy],
                experience |-> [exists |-> TRUE, e |-> experience'],
                state |-> IF state_changed
                          THEN [exists |-> TRUE, s |-> get_state]
                          ELSE disk.state]
    /\ state_changed' = FALSE
    /\ log' = [NoLog EXCEPT !.op = "save", !.outcome = "returned"]
    /\ UNCHANGED <<pddp, params, trained, value_fn, pc, loc, policy, n_episodes, H,
                   learning_iteration, n_evals, best_p, evaluate_cost, train_fn,
                   plant, viz>>

\* lines 122-127: stop(); the call of save is commented out
stop ==
    /\ pc = "idle"
    /\ plant.running \/ viz \in {"idle", "running"}
    /\ plant' = [plant EXCEPT !.running = FALSE]
    /\ viz' = IF viz = "none" THEN "none" ELSE "stopped"
    /\ log' = [NoLog EXCEPT !.op = "stop", !.outcome = "returned"]
    /\ UNCHANGED <<pddp, params, trained, value_fn, pc, loc, policy, n_episodes, H,
                   learning_iteration, n_evals, state_changed, best_p,
                   evaluate_cost, train_fn, experience, disk>>

\* ------------------------------------------------------------ construction

InitialParams == 1

\* lines 37, 47: the plant and the visualization the constructor creates
NewPlant(p) ==
    [dt |-> p.dt, noise |-> p.noise, finite |-> p.finite, done_after |-> p.done_after,
     t |-> 0, steps |-> 0, running |-> FALSE, done |-> FALSE]

NewViz(p) == IF p.viz_class THEN "idle" ELSE "none"

\* lines 95-96: policy.load() and experience.load() restore what save persisted
LoadedPolicy == IF disk.policy.exists THEN disk.policy.p ELSE policy

LoadedExperience == IF disk.experience.exists THEN disk.experience.e ELSE experience

\* lines 75-78: the two scans of episode_labels; -1 stands for the IndexError of a
\* scan that runs off the end of the list
RECURSIVE ScanWhileNot(_, _, _)
ScanWhileNot(labels, entry_num, k) ==
    IF entry_num >= Len(labels) THEN -1
    ELSE IF labels[entry_num + 1] # k THEN ScanWhileNot(labels, entry_num + 1, k)
         ELSE entry_num

RECURSIVE ScanWhile(_, _, _)
ScanWhile(labels, entry_num, k) ==
    IF entry_num >= Len(labels) THEN -1
    ELSE IF labels[entry_num + 1] = k THEN ScanWhile(labels, entry_num + 1, k)
         ELSE entry_num

EntryNum(labels, k) ==
    IF ScanWhileNot(labels, 0, k) = -1 THEN -1
    ELSE ScanWhile(labels, ScanWhileNot(labels, 0, k), k)

\* lines 79-86: the truncation to entry_num and to iteration k
Truncate(e, entry_num, k) ==
    [e EXCEPT !.time_stamps = Slice(@, entry_num),
              !.states = Slice(@, entry_num),
              !.actions = Slice(@, entry_num),
              !.immediate_cost = Slice(@, entry_num),
              !.curr_episode = entry_num - 1,
              !.policy_history = IF k # 0 THEN Slice(@, k) ELSE @]

\* lines 129-138: set_state(state)
SetState(s) ==
    /\ n_episodes' = s.n_episodes
    /\ H' = s.H
    /\ n_evals' = s.n_evals

\* lines 28-91 with no learner-state archive: load raises IOError after the policy
\* and the experience were loaded; init_cost binds evaluate_cost if a cost is given
ConstructFresh ==
    /\ pc = "new"
    /\ ~disk.state.exists
    /\ policy' = LoadedPolicy
    /\ experience' = LoadedExperience
    /\ evaluate_cost' = params.cost_func
    /\ state_changed' = FALSE
    /\ pc' = "idle"
    /\ log' = [NoLog EXCEPT !.op = "__init__", !.outcome = "fresh"]
    /\ UNCHANGED <<pddp, params, trained, value_fn, loc, n_episodes, H, learning_iteration, n_evals,
                   best_p, train_fn, plant, viz, disk>>

\* lines 28-68, 91: the archive is loaded and no revert is asked for, or the
\* loaded buffer has no policy_history
ConstructLoaded ==
    /\ pc = "new"
    /\ disk.state.exists
    /\ \/ params.learn_from_iteration = -1
       \/ ~LoadedExperience.has_policy_history
    /\ policy' = LoadedPolicy
    /\ experience' = LoadedExperience
    /\ SetState(disk.state.s)
    /\ learning_iteration' = disk.state.s.learning_iteration
    /\ state_changed' = FALSE
    /\ pc' = "idle"
    /\ log' = [NoLog EXCEPT !.op = "__init__", !.outcome = "loaded"]
    /\ UNCHANGED <<pddp, params, trained, value_fn, loc, best_p, evaluate_cost, train_fn, plant,
                   viz, disk>>

\* lines 28-71: the iteration asked for is not below len(policy_history) - 1: the
\* warning is printed and raw_input() blocks
ConstructPrompt ==
    /\ pc = "new"
    /\ disk.state.exists
    /\ params.learn_from_iteration # -1
    /\ LoadedExperience.has_policy_history
    /\ params.learn_from_iteration + 1 >= Len(LoadedExperience.policy_history)
    /\ policy' = LoadedPolicy
    /\ experience' = LoadedExperience
    /\ SetState(disk.state.s)
    /\ learning_iteration' = disk.state.s.learning_iteration
    /\ state_changed' = FALSE
    /\ pc' = "prompt"
    /\ log' = [NoLog EXCEPT !.op = "__init__", !.outcome = "prompt"]
    /\ UNCHANGED <<pddp, params, trained, value_fn, loc, best_p, evaluate_cost, train_fn, plant,
                   viz, disk>>

\* lines 71, 91: the operator answers the prompt
ConfirmPrompt ==
    /\ pc = "prompt"
    /\ state_changed' = FALSE
    /\ pc' = "idle"
    /\ log' = [log EXCEPT !.outcome = "confirmed"]
    /\ UNCHANGED <<pddp, params, trained, value_fn, loc, policy, n_episodes, H, learning_iteration,
                   n_evals, best_p, evaluate_cost, train_fn, experience, plant,
                   viz, disk>>

Reverting ==
    /\ pc = "new"
    /\ disk.state.exists
    /\ params.learn_from_iteration # -1
    /\ LoadedExperience.has_policy_history
    /\ params.learn_from_iteration + 1 < Len(LoadedExperience.policy_history)

\* lines 28-78: the revert fails: the constructor's experience argument is None
\* (AttributeError), or a scan of episode_labels runs off its end (IndexError)
ConstructRevertRaise ==
    /\ Reverting
    /\ \/ ~params.experience_arg
       \/ EntryNum(LoadedExperience.episode_labels, params.learn_from_iteration) = -1
    /\ policy' = LoadedPolicy
    /\ experience' = LoadedExperience
    /\ SetState(disk.state.s)
    /\ learning_iteration' = disk.state.s.learning_iteration
    /\ state_changed' = FALSE
    /\ pc' = "raised"
    /\ log' = [NoLog EXCEPT !.op = "__init__",
                  !.outcome = IF params.experience_arg THEN "IndexError"
                              ELSE "AttributeError"]
    /\ UNCHANGED <<pddp, params, trained, value_fn, loc, best_p, evaluate_cost, train_fn, plant,
                   viz, disk>>

\* lines 28-87, 91: the buffer and the policy are reverted to the iteration
ConstructRevert ==
    /\ Reverting
    /\ params.experience_arg
    /\ EntryNum(LoadedExperience.episode_labels, params.learn_from_iteration) # -1
    /\ experience' =
          Truncate(LoadedExperience,
                   EntryNum(LoadedExperience.episode_labels, params.learn_from_iteration),
                   params.learn_from_iteration)
    /\ policy' = IF params.learn_from_iteration # 0
                 THEN LoadedExperience.policy_history[params.learn_from_iteration]
                 ELSE LoadedPolicy
    /\ SetState(disk.state.s)
    /\ learning_iteration' = params.learn_from_iteration + 1
    /\ state_changed' = FALSE
    /\ pc' = "idle"
    /\ log' = [NoLog EXCEPT !.op = "__init__", !.outcome = "reverted"]
    /\ UNCHANGED <<pddp, params, trained, value_fn, loc, best_p, evaluate_cost, train_fn, plant,
                   viz, disk>>

\* the process ends and the program is run again, on the files the run left
Restart ==
    /\ pc \in {"idle", "raised", "prompt"}
    /\ disk.policy.exists
    /\ params.run < MaxRuns
    /\ \E k \in params.driver.resume, arg \in BOOLEAN :
          params' = [params EXCEPT !.learn_from_iteration = k,
                                   !.experience_arg = arg,
                                   !.run = @ + 1]
    /\ pc' = "new"
    /\ loc' = NoLocals
    /\ policy' = InitialParams
    /\ n_episodes' = 0
    /\ H' = params.H
    /\ learning_iteration' = 0
    /\ n_evals' = 0
    /\ state_changed' = FALSE
    /\ best_p' = NoBest
    /\ evaluate_cost' = FALSE
    /\ train_fn' = FALSE
    /\ experience' = EmptyExperience(~params.legacy_buffer)
    /\ plant' = NewPlant(params.plant)
    /\ viz' = NewViz(params)
    /\ trained' = 0
    /\ pddp' = NoPddp
    /\ log' = NoLog
    /\ UNCHANGED <<value_fn, disk>>

\* ------------------------------------------------------------ specifications

NeverDone == [dt |-> 1, noise |-> TRUE, finite |-> FALSE, done_after |-> 1]

Plants(dts, noises) ==
    {[dt |-> d, noise |-> n, finite |-> f, done_after |-> a] :
        d \in dts, n \in noises, f \in BOOLEAN, a \in 1..MaxH}
    \ {pl \in [dt : dts, noise : noises, finite : {FALSE}, done_after : 2..MaxH] : TRUE}

\* what the program that drives the learner passes to it: the H of
\* apply_controller and of train_policy, random_controls, and the
\* learn_from_iteration of a later run
Driver(apply_H, randoms, train_H, resumes) ==
    [apply_H |-> apply_H, random |-> randoms, train_H |-> train_H, resume |-> resumes]

Configs(methods, budgets, costs, vizs, legacies, plants, points, drivers) ==
    {[min_method |-> m, max_evals |-> b, cost_func |-> c, viz_class |-> v,
      async_plant |-> FALSE, H |-> 1, legacy_buffer |-> l, plant |-> pl,
      points |-> points, driver |-> dr,
      learn_from_iteration |-> -1, experience_arg |-> FALSE, run |-> 1,
      compute |-> {0}, nominal_H |-> 1] :
        m \in methods, b \in budgets, c \in costs, v \in vizs, l \in legacies,
        pl \in plants, dr \in drivers}

\* the state the constructor leaves (pc = "idle") or finds (pc = "new") when the
\* run output directory is empty
Blank(configs, value_fns, start) ==
    /\ params \in configs
    /\ value_fn \in value_fns
    /\ pc = start
    /\ loc = NoLocals
    /\ policy = InitialParams
    /\ n_episodes = 0
    /\ H = params.H
    /\ learning_iteration = 0
    /\ n_evals = 0
    /\ state_changed = FALSE
    /\ best_p = NoBest
    /\ evaluate_cost = (start = "idle" /\ params.cost_func)
    /\ train_fn = FALSE
    /\ experience = EmptyExperience(~params.legacy_buffer)
    /\ plant = NewPlant(params.plant)
    /\ viz = NewViz(params)
    /\ disk = [policy |-> NoFile, experience |-> NoFile, state |-> NoFile]
    /\ trained = 0
    /\ pddp = NoPddp
    /\ log = IF start = "idle"
             THEN [NoLog EXCEPT !.op = "__init__", !.outcome = "fresh"]
             ELSE NoLog

TrainDriver == Driver({NoH}, {FALSE}, {NoH} \cup GivenH({MaxH}), {-1})

\* train_policy alone, on a freshly constructed learner, for every value functional
InitTrain ==
    Blank(Configs({"L-BFGS-B", "bfgs", "CG", "FOO"}, {MaxEvals}, {TRUE}, {FALSE},
                  {FALSE}, {NeverDone}, Params, {TrainDriver})
          \cup Configs({"ADAM"}, 0..MaxEvals, {TRUE}, {FALSE}, {FALSE},
                       {NeverDone}, Params, {TrainDriver}),
          [Params -> Vals], "idle")

NextTrain ==
    \/ TrainStartDet
    \/ TrainStartStoch
    \/ TrainStartUnknown
    \/ DetAttempt
    \/ LossEval
    \/ MinimizeSuccess
    \/ MinimizeRaise
    \/ DetExhausted
    \/ StochStep
    \/ StochDone

SpecTrain == InitTrain /\ [][NextTrain]_vars

RolloutDriver ==
    Driver({NoH} \cup GivenH(0..MaxH), BOOLEAN, {NoH}, {-1})

\* the configurations with a plant on its own clock (async_plant) or not, and
\* with the wall-clock times one pass of the rollout loop may take
WithTiming(configs, asyncs, computes) ==
    {[c EXCEPT !.async_plant = a, !.compute = computes] : c \in configs, a \in asyncs}

\* apply_controller alone, on a freshly constructed learner, for every plant
InitRollout ==
    Blank(WithTiming(Configs({"ADAM"}, {1}, BOOLEAN, BOOLEAN, {FALSE},
                             Plants(1..MaxDt, BOOLEAN), Params, {RolloutDriver}),
                     BOOLEAN, 0..(MaxDt + 1)),
          {[p \in Params |-> 0]}, "idle")

NextRollout ==
    \/ ApplyStartNoNoise
    \/ ApplyStart
    \/ RolloutStepRaise
    \/ RolloutStep
    \/ RolloutEndUnbound
    \/ RolloutEnd
    \/ stop

SpecRollout == InitRollout /\ [][NextRollout]_vars

LifeDriver == Driver({NoH}, {FALSE}, {NoH}, -1..MaxIter)

PlainDriver == Driver({NoH}, {FALSE}, {NoH}, {-1})

ZeroDriver == Driver(GivenH({0}), {FALSE}, {NoH}, {-1})

NoNoise == [NeverDone EXCEPT !.noise = FALSE]

\* the life of the learner over runs of the program: construction, rollouts,
\* training, save, stop and restart
Init ==
    Blank(Configs({"ADAM", "FOO"}, {1}, {TRUE}, {FALSE}, {FALSE},
                  {NeverDone}, 1..2, {LifeDriver})
          \cup Configs({"bfgs"}, {1}, {TRUE}, {FALSE}, {FALSE},
                       {NeverDone}, 1..2, {PlainDriver})
          \cup Configs({"ADAM"}, {1}, {FALSE}, {FALSE}, {FALSE},
                       {NeverDone}, 1..2, {LifeDriver})
          \cup Configs({"ADAM"}, {1}, {TRUE}, {FALSE}, {TRUE},
                       {NeverDone}, 1..2, {LifeDriver})
          \cup Configs({"ADAM"}, {1}, {TRUE}, {FALSE}, {FALSE},
                       {NoNoise}, 1..2, {LifeDriver})
          \cup Configs({"ADAM"}, {1}, {TRUE}, {FALSE}, {FALSE},
                       {NeverDone}, 1..2, {ZeroDriver}),
          {[p \in Params |-> IF p = InitialParams THEN 1 ELSE 0]}, "new")

Next ==
    \/ ConstructFresh
    \/ ConstructLoaded
    \/ ConstructPrompt
    \/ ConfirmPrompt
    \/ ConstructRevertRaise
    \/ ConstructRevert
    \/ ApplyStartNoNoise
    \/ ApplyStart
    \/ RolloutStepRaise
    \/ RolloutStep
    \/ RolloutEndUnbound
    \/ RolloutEnd
    \/ TrainStartDet
    \/ TrainStartStoch
    \/ TrainStartUnknown
    \/ DetAttempt
    \/ LossEval
    \/ MinimizeSuccess
    \/ MinimizeRaise
    \/ DetExhausted
    \/ StochStep
    \/ StochDone
    \/ save
    \/ Restart

Spec == Init /\ [][Next]_vars

\* --------------------------------------------------------------------- PDDP
\* src/kusanagi/ghost/algorithms/PDDP/pddp.py.  PDDP inherits n_evals and max_evals
\* and overrides train_policy.  A state of the nominal trajectory and a nominal
\* action are named by their index; the nominal trajectory has params.nominal_H
\* states (H = z_nom.shape[0], line 189).

PddpLocals ==
    [handler |-> "PDDP.train_policy", converged |-> FALSE, fn |-> 0, t |-> 0,
     forward |-> <<>>, backward |-> <<>>,
     V |-> [V |-> "unset", Vx |-> "unset", Vxx |-> "unset"]]

\* lines 244-249: converged = False, n_evals = 0; the graphs are built on first use
PddpTrainStart ==
    /\ pc = "idle"
    /\ trained < MaxIter
    /\ n_evals' = 0
    /\ loc' = PddpLocals
    /\ pc' = IF pddp.trajectory_jac_fn THEN "pddp_jac" ELSE "pddp_build"
    /\ log' = [NoLog EXCEPT !.op = "PDDP.train_policy", !.outcome = "running"]
    /\ UNCHANGED <<pddp, params, trained, value_fn, policy, n_episodes, H,
                   learning_iteration, state_changed, best_p, evaluate_cost,
                   train_fn, experience, plant, viz, disk>>

\* lines 185-242: forward_backwards() builds the scans and compiles the functions
forward_backwards ==
    /\ pc = "pddp_build"
    /\ pddp' = [trajectory_jac_fn |-> TRUE, lop |-> FALSE]
    /\ pc' = "pddp_jac"
    /\ UNCHANGED <<params, trained, value_fn, loc, policy, n_episodes, H,
                   learning_iteration, n_evals, state_changed, best_p, evaluate_cost,
                   train_fn, experience, plant, viz, disk, log>>

\* lines 258, 259: trajectory_jac_fn2(), then trajectory_jac_fn3(); each runs the
\* forward scan and then its backward scan
JacFnCall ==
    /\ pc = "pddp_jac"
    /\ loc.fn # 3
    /\ loc' = [loc EXCEPT !.fn = IF @ = 0 THEN 2 ELSE 3, !.t = 0,
                          !.forward = <<>>, !.backward = <<>>]
    /\ pc' = "pddp_forward"
    /\ UNCHANGED <<pddp, params, trained, value_fn, policy, n_episodes, H,
                   learning_iteration, n_evals, state_changed, best_p, evaluate_cost,
                   train_fn, experience, plant, viz, disk, log>>

\* lines 260-266: both functions have returned
JacFnsDone ==
    /\ pc = "pddp_jac"
    /\ loc.fn = 3
    /\ pc' = "pddp_while"
    /\ UNCHANGED <<pddp, params, trained, value_fn, loc, policy, n_episodes, H,
                   learning_iteration, n_evals, state_changed, best_p, evaluate_cost,
                   train_fn, experience, plant, viz, disk, log>>

\* lines 167-183, 50-51: forward_pass(t, z): propagate_state with open_loop=True
\* takes the action u_nominal[t]
forward_pass(t, z) == [t |-> t, z |-> z, u |-> t]

\* lines 195-199: one step of the forward scan over tt.arange(H); the carried state
\* starts at z_nom[0] and is z_nom[t] of line 209 at step t
ForwardScanStep ==
    /\ pc = "pddp_forward"
    /\ loc.t < params.nominal_H
    /\ loc' = [loc EXCEPT !.forward = Append(@, forward_pass(loc.t, loc.t)),
                          !.t = @ + 1]
    /\ UNCHANGED <<pddp, params, trained, value_fn, pc, policy, n_episodes, H,
                   learning_iteration, n_evals, state_changed, best_p, evaluate_cost,
                   train_fn, experience, plant, viz, disk, log>>

\* lines 212-230: the backward scan starts at t = H-1 (go_backwards) from
\* V = m_cost[-1], Vx = zeros, Vxx = zeros
ForwardScanDone ==
    /\ pc = "pddp_forward"
    /\ loc.t >= params.nominal_H
    /\ loc' = [loc EXCEPT !.t = params.nominal_H - 1,
                          !.V = [V |-> "m_cost[-1]", Vx |-> "zeros", Vxx |-> "zeros"]]
    /\ pc' = "pddp_backward"
    /\ UNCHANGED <<pddp, params, trained, value_fn, policy, n_episodes, H,
                   learning_iteration, n_evals, state_changed, best_p, evaluate_cost,
                   train_fn, experience, plant, viz, disk, log>>

\* lines 127-131: backward_pass(t, z_prev, ...) linearises forward_pass(t-1, z_prev)
backward_pass(t, z_prev) == [forward_pass(t - 1, z_prev) EXCEPT !.t = t]

\* lines 212-230: one step of a backward scan over (t, z_nom[t]), t going down
BackwardScanStep ==
    /\ pc = "pddp_backward"
    /\ loc.t >= 0
    /\ loc' = [loc EXCEPT !.backward = Append(@, backward_pass(loc.t, loc.t)),
                          !.t = @ - 1,
                          !.V = [V |-> "updated", Vx |-> "updated", Vxx |-> "updated"]]
    /\ UNCHANGED <<pddp, params, trained, value_fn, pc, policy, n_episodes, H,
                   learning_iteration, n_evals, state_changed, best_p, evaluate_cost,
                   train_fn, experience, plant, viz, disk, log>>

BackwardScanDone ==
    /\ pc = "pddp_backward"
    /\ loc.t < 0
    /\ pc' = "pddp_jac"
    /\ UNCHANGED <<pddp, params, trained, value_fn, loc, policy, n_episodes, H,
                   learning_iteration, n_evals, state_changed, best_p, evaluate_cost,
                   train_fn, experience, plant, viz, disk, log>>

\* line 268: the test of the while loop holds
WhileEnter ==
    /\ pc = "pddp_while"
    /\ ~loc.converged /\ n_evals < params.max_evals
    /\ pc' = "pddp_body"
    /\ UNCHANGED <<pddp, params, trained, value_fn, loc, policy, n_episodes, H,
                   learning_iteration, n_evals, state_changed, best_p, evaluate_cost,
                   train_fn, experience, plant, viz, disk, log>>

\* lines 269-273: the body of the loop holds comments only: nothing is assigned
WhileBody ==
    /\ pc = "pddp_body"
    /\ pc' = "pddp_while"
    /\ UNCHANGED <<pddp, params, trained, value_fn, loc, policy, n_episodes, H,
                   learning_iteration, n_evals, state_changed, best_p, evaluate_cost,
                   train_fn, experience, plant, viz, disk, log>>

\* line 268: the test fails and train_policy returns
PddpTrainReturn ==
    /\ pc = "pddp_while"
    /\ ~(~loc.converged /\ n_evals < params.max_evals)
    /\ pc' = "idle"
    /\ loc' = NoLocals
    /\ trained' = trained + 1
    /\ log' = [log EXCEPT !.outcome = "returned"]
    /\ UNCHANGED <<pddp, params, value_fn, policy, n_episodes, H,
                   learning_iteration, n_evals, state_changed, best_p, evaluate_cost,
                   train_fn, experience, plant, viz, disk>>

\* a PDDP learner, for every evaluation budget and length of the nominal trajectory
InitPDDP ==
    Blank({[c EXCEPT !.nominal_H = h] :
              c \in Configs({"PDDP"}, 0..MaxEvals, {TRUE}, {FALSE}, {FALSE},
                            {NeverDone}, Params, {TrainDriver}),
              h \in 1..(MaxH + 1)},
          {[p \in Params |-> 0]}, "idle")

NextPDDP ==
    \/ PddpTrainStart
    \/ forward_backwards
    \/ JacFnCall
    \/ JacFnsDone
    \/ ForwardScanStep
    \/ ForwardScanDone
    \/ BackwardScanStep
    \/ BackwardScanDone
    \/ WhileEnter
    \/ WhileBody
    \/ PddpTrainReturn

\* the learner's single thread runs on as long as it has a next statement
SpecPDDP == InitPDDP /\ [][NextPDDP]_vars /\ WF_vars(NextPDDP)

\* ------------------------------------------------------------------ claims

MinOf(S) == CHOOSE m \in S : \A n \in S : m <= n

\* the values the running (or last) train_policy call has evaluated, baseline included
Observed == {value_fn[p] : p \in log.seen}

\* the parameters at which the lowest value of the call was evaluated
BestSeen == {p \in log.seen : value_fn[p] = MinOf(Observed)}

DetConfigured == upper(params.min_method) \in Range(DETERMINISTIC_MIN_METHODS)

StochConfigured ==
    /\ ~DetConfigured
    /\ upper(params.min_method) \in STOCHASTIC_MIN_METHODS

CallOver == pc \in {"idle", "raised"}

CurrentEpisode(array) == array[experience.curr_episode + 1]

\* C1: for a plant that never reports done, a call apply_controller(H) with H > 0
\* returns having opened one new episode, tagged with random_controls and the
\* learning iteration of the call, that holds ceil(H/dt) loop samples followed by
\* one terminal sample.
C1_RolloutRecordsHorizon ==
    (/\ log.op = "apply_controller"
     /\ CallOver
     /\ ~plant.finite
     /\ log.horizon > 0)
    => /\ log.outcome = "returned"
       /\ Len(experience.episode_labels) = n_episodes
       /\ experience.episode_labels[Len(experience.episode_labels)] = learning_iteration
       /\ experience.random[Len(experience.random)] = log.random
       /\ Len(CurrentEpisode(experience.actions))
             = ((log.horizon + plant.dt - 1) \div plant.dt) + 1
       /\ \A j \in 1..Len(CurrentEpisode(experience.actions)) :
             (CurrentEpisode(experience.actions)[j] = "zero")
                <=> (j = Len(CurrentEpisode(experience.actions)))

IsNot(m, x) == x # m

\* the configured method, then the remaining methods of the list in its order
ExpectedOrder(m) ==
    <<m>> \o SelectSeq(DETERMINISTIC_MIN_METHODS, LAMBDA x : IsNot(m, x))

\* C2: with a deterministic method, the optimizers attempted are a prefix of
\* [configured method, remaining methods in the list's order]; an attempt follows
\* only failed attempts, and nothing is attempted after a success.
C2_FallbackOrder ==
    (log.op = "train_policy" /\ DetConfigured)
    => /\ Len(log.attempts) <= Len(ExpectedOrder(upper(params.min_method)))
       /\ \A j \in 1..Len(log.attempts) :
             /\ log.attempts[j].method = ExpectedOrder(upper(params.min_method))[j]
             /\ j < Len(log.attempts) => log.attempts[j].result = "failed"
             /\ log.attempts[j].result = "ok" => (j = Len(log.attempts) /\ pc = "idle")
             /\ \A k \in 1..Len(log.attempts) :
                   log.attempts[k].method = log.attempts[j].method => k = j

C2_Witness ==
    /\ log.op = "train_policy"
    /\ params.min_method = "bfgs"
    /\ pc = "idle"
    /\ Len(log.attempts) = 3
    /\ log.attempts[1].method = "BFGS"
    /\ log.attempts[2].method = "L-BFGS-B"
    /\ log.attempts[2].result = "failed"
    /\ log.attempts[3].method = "TNC"
    /\ log.attempts[3].result = "ok"

AllFailed ==
    /\ Len(log.attempts) = Len(DETERMINISTIC_MIN_METHODS)
    /\ \A j \in 1..Len(log.attempts) : log.attempts[j].result = "failed"

\* C3: if every deterministic method fails, train_policy ends in a fatal error: it
\* does not return normally and does not mark the state as changed by a training.
C3_AllFailedIsFatal ==
    (/\ log.op = "train_policy"
     /\ DetConfigured
     /\ AllFailed
     /\ CallOver)
    => /\ pc = "raised"
       /\ log.outcome # "returned"

\* C4: when train_policy with a deterministic method returns, the value of the
\* parameters installed on the policy is at most the baseline value v0 of the call.
C4_ReturnedValueNotWorse ==
    (/\ log.op = "train_policy"
     /\ DetConfigured
     /\ log.outcome = "returned")
    => value_fn[policy] <= log.initial

\* C5: after a deterministic method fails and before the next is attempted, the
\* policy holds the best-seen parameters (lowest value evaluated so far in the
\* call, baseline included), and the next attempt starts from exactly them.
C5_RetryFromBest ==
    [][/\ (pc = "minimize" /\ pc' = "train_det")
            => /\ policy' \in BestSeen
               /\ best_p.p = policy'
               /\ best_p.v = MinOf(Observed)
       /\ (pc = "train_det" /\ loc.i > 1 /\ pc' = "minimize")
            => /\ policy \in BestSeen
               /\ log'.attempts[Len(log'.attempts)].x0 = policy]_vars

C5_Witness ==
    /\ pc = "minimize"
    /\ Len(log.attempts) = 2
    /\ log.attempts[2].x0 # InitialParams
    /\ value_fn[log.attempts[2].x0] < log.initial
    /\ log.calls = 2
    /\ policy # log.attempts[2].x0

\* C6: a train_policy call with a stochastic method and budget max_evals runs
\* exactly max_evals update steps and returns with n_evals = max_evals, whatever
\* n_evals was before the call.
C6_StochasticBudget ==
    (/\ log.op = "train_policy"
     /\ StochConfigured
     /\ log.outcome = "returned")
    => /\ n_evals = params.max_evals
       /\ log.calls = params.max_evals

C6_Witness ==
    /\ log.op = "train_policy"
    /\ StochConfigured
    /\ log.outcome = "returned"
    /\ learning_iteration = 2
    /\ params.max_evals = MaxEvals
    /\ n_evals = MaxEvals

\* C7: when train_policy with a stochastic method returns and the best-seen value
\* is strictly lower than the value of the final step's parameters, the policy
\* holds the best-seen parameters, not the last-step ones.
C7_BestRetained ==
    (/\ log.op = "train_policy"
     /\ StochConfigured
     /\ log.outcome = "returned"
     /\ MinOf(Observed) < value_fn[log.final])
    => policy \in BestSeen

\* C8: on a learner whose buffer has a policy_history, after any sequence of
\* apply_controller, train_policy and save calls the length of policy_history is
\* the number of completed train_policy calls.
C8_HistoryCountsTrainings ==
    (/\ params.run = 1
     /\ pc = "idle"
     /\ experience.has_policy_history)
    => Len(experience.policy_history) = trained

Loaded == disk.state.exists /\ disk.experience.exists /\ disk.policy.exists

\* iteration k exists in the loaded buffer: an episode carries its label and the
\* parameter history reaches it
ExistsInBuffer(k) ==
    /\ Loaded
    /\ disk.experience.e.has_policy_history
    /\ k \in Range(disk.experience.e.episode_labels)
    /\ k <= Len(disk.experience.e.policy_history)

\* C9: after construction with a resume request k >= 0 that exists in the loaded
\* buffer, every retained episode carries a label <= k, policy_history has exactly
\* k entries, and for k > 0 the policy holds the loaded policy_history[k-1].
C9_RevertToIteration ==
    (/\ log.op = "__init__"
     /\ CallOver
     /\ params.learn_from_iteration >= 0
     /\ ExistsInBuffer(params.learn_from_iteration))
    => /\ pc = "idle"
       /\ \A j \in 1..Len(experience.time_stamps) :
             experience.episode_labels[j] <= params.learn_from_iteration
       /\ Len(experience.policy_history) = params.learn_from_iteration
       /\ params.learn_from_iteration > 0
             => policy = disk.experience.e.policy_history[params.learn_from_iteration]

\* C10: a resume request (iteration # -1) for an iteration that cannot be restored
\* from the loaded buffer never proceeds silently: the constructor prompts and
\* blocks, and once confirmed goes on with the buffer, the history and the policy
\* as loaded.
C10_UnrestorableAsksOperator ==
    (/\ log.op = "__init__"
     /\ Loaded
     /\ params.learn_from_iteration # -1
     /\ ~ExistsInBuffer(params.learn_from_iteration))
    => /\ log.outcome \in {"prompt", "confirmed"}
       /\ log.outcome = "prompt" <=> pc = "prompt"
       /\ experience = disk.experience.e
       /\ policy = disk.policy.p
       /\ learning_iteration = disk.state.s.learning_iteration

\* C11: constructing a learner when no learner-state archive can be opened completes
\* without raising and leaves the FRESH state: the counters are 0, the buffer and
\* the policy are the newly constructed ones, the cost evaluator is bound, and
\* state_changed is false.
C11_MissingArchiveIsFresh ==
    (/\ log.op = "__init__"
     /\ ~disk.state.exists)
    => /\ pc = "idle"
       /\ n_episodes = 0
       /\ learning_iteration = 0
       /\ n_evals = 0
       /\ experience = EmptyExperience(~params.legacy_buffer)
       /\ policy = InitialParams
       /\ evaluate_cost
       /\ ~state_changed

\* C12: save always persists the policy and the experience buffer, and writes the
\* learner-state archive if and only if state_changed is true; after save
\* state_changed is false, so a second save with no change in between leaves the
\* archive as it was.
C12_SaveWritesStateIffChanged ==
    [][log'.op = "save"
         => /\ disk'.policy = [exists |-> TRUE, p |-> policy']
            /\ disk'.experience = [exists |-> TRUE, e |-> experience']
            /\ state_changed
                  => disk'.state =
                        [exists |-> TRUE,
                         s |-> [n_episodes |-> n_episodes, H |-> H,
                                learning_iteration |-> learning_iteration,
                                n_evals |-> n_evals]]
            /\ ~state_changed => disk'.state = disk.state
            /\ ~state_changed']_vars

\* a second save after a rollout: the archive of the first save is left as it was
C12_Witness ==
    /\ log.op = "save"
    /\ params.run = 1
    /\ trained = 1
    /\ Len(experience.policy_history) = 2
    /\ disk.state.exists
    /\ disk.state.s.n_episodes < n_episodes

InLoop == pc \in {"rollout", "rollout_break"}

\* C13: however the rollout loop exits (horizon exhausted or the plant's done
\* signal), when apply_controller returns the plant and the visualization (when
\* present) are stopped and n_episodes is 1 more than when the call began.
C13_ReturnStopsPlantAndViz ==
    [][/\ (pc = "idle" /\ InLoop') => n_episodes' = n_episodes
       /\ (InLoop /\ InLoop') => n_episodes' = n_episodes
       /\ (InLoop /\ pc' = "idle")
            => /\ ~plant'.running
               /\ params.viz_class => viz' = "stopped"
               /\ n_episodes' = n_episodes + 1]_vars

\* a call on an asynchronous plant with a visualization returned after the plant
\* reported done before the horizon was exhausted
C13_Witness ==
    /\ log.op = "apply_controller"
    /\ log.outcome = "returned"
    /\ params.async_plant
    /\ params.viz_class
    /\ plant.done
    /\ plant.steps < H_steps(log.horizon, plant.dt)
    /\ ~plant.running
    /\ viz = "stopped"
    /\ n_episodes = 1

\* the loop samples of the current episode: those whose action is not the zero
\* action of the terminal sample
LoopSamples ==
    SelectSeq(CurrentEpisode(experience.actions), LAMBDA u : u # "zero")

\* C14: if the plant reports done after loop step i, no loop sample beyond step i
\* is recorded; and for every horizon H >= 0 and every exit of the loop, exactly one
\* terminal sample with a zero action is appended as the last sample of the episode.
C14_OneTerminalSample ==
    (/\ log.op = "apply_controller"
     /\ CallOver
     /\ plant.noise
     /\ params.cost_func
     /\ log.horizon >= 0)
    => /\ log.outcome = "returned"
       /\ plant.done => Len(LoopSamples) = plant.done_after
       /\ Len(CurrentEpisode(experience.actions)) = Len(LoopSamples) + 1
       /\ CurrentEpisode(experience.actions)[Len(LoopSamples) + 1] = "zero"

\* C15: train_policy with a method name of neither family raises its configuration
\* error at training start: no optimizer step is run, and the error comes before
\* the baseline value is evaluated and before learning_iteration and n_evals are
\* modified.
C15_UnknownMethodRaisesFirst ==
    [][(pc = "idle" /\ pc' = "raised" /\ log'.op = "train_policy")
         => /\ log'.outcome = "ValueError"
            /\ log'.calls = 0
            /\ learning_iteration' = learning_iteration
            /\ n_evals' = n_evals
            /\ best_p' = best_p]_vars

\* C16: the Cholesky factor is taken and noise added only when the plant has a noise
\* covariance; with plant.noise null the rollout completes without error and every
\* recorded state is the state plant.get_state() returned.
C16_NullNoiseRollsOut ==
    (/\ log.op = "apply_controller"
     /\ CallOver
     /\ ~plant.noise
     /\ params.cost_func
     /\ log.horizon > 0)
    => /\ log.outcome = "returned"
       /\ \A j \in 1..Len(CurrentEpisode(experience.states)) :
             ~CurrentEpisode(experience.states)[j].noisy

\* C17: at every step of apply_controller and for the terminal sample the cost is
\* the evaluator's when a cost function is configured and zero when none is; the
\* rollout never fails for lack of a cost evaluator, on a fresh learner or on one
\* restored from a checkpoint.
C17_CostOrZero ==
    (/\ log.op = "apply_controller"
     /\ CallOver
     /\ plant.noise
     /\ log.horizon > 0)
    => /\ log.outcome = "returned"
       /\ \A j \in 1..Len(CurrentEpisode(experience.immediate_cost)) :
             CurrentEpisode(experience.immediate_cost)[j]
                = IF params.cost_func THEN "cost" ELSE "zero"

\* C19: stop() stops the plant, stops the visualization when there is one, and
\* saves the learner: afterwards the persisted learner state is the current one.
C19_StopSaves ==
    (log.op = "stop")
    => /\ ~plant.running
       /\ params.viz_class => viz = "stopped"
       /\ disk.state.exists
       /\ disk.state.s = [n_episodes |-> n_episodes, H |-> H,
                          learning_iteration |-> learning_iteration,
                          n_evals |-> n_evals]

\* C18: in each rollout step, with c the measured compute time of the step: if
\* c < dt the loop sleeps exactly dt - c before the next plant state is read, so
\* consecutive state reads are at least dt apart; if c >= dt it does not sleep.
C18_SleepsResidual ==
    (pc \in {"rollout", "rollout_break"} /\ loc.i > 0)
    => /\ loc.exec_time < plant.dt => loc.slept = plant.dt - loc.exec_time
       /\ loc.exec_time >= plant.dt => loc.slept = 0
       /\ loc.interval = loc.exec_time + loc.slept
       /\ loc.interval >= plant.dt

\* a step that took less than dt and slept, in a plant with dt > 1
C18_Witness ==
    /\ pc = "rollout"
    /\ loc.i = 1
    /\ plant.dt = MaxDt
    /\ loc.exec_time = 1
    /\ loc.slept = MaxDt - 1

InTrain == pc \in {"train_det", "minimize", "train_stoch"}

\* C20: at every point of a train_policy call, deterministic or stochastic,
\* best_p[0] is the minimum of the baseline value and the values evaluated so far
\* in the call; it never increases, and the pair is overwritten only when a
\* strictly lower value is observed (a tie keeps the earlier pair).
C20_BestIsRunningMinimum ==
    /\ [](InTrain => (best_p.set /\ best_p.v = MinOf(Observed)))
    /\ [][(InTrain /\ log'.op = "train_policy")
            => /\ best_p'.v <= best_p.v
               /\ best_p' # best_p => best_p'.v < best_p.v]_vars

\* loss was evaluated at a point whose value ties the best: the earlier pair is kept
C20_Witness ==
    /\ pc = "minimize"
    /\ log.calls > 0
    /\ policy # best_p.p
    /\ value_fn[policy] = best_p.v

\* C21: after a resume-from-iteration truncation the time-aligned arrays of the
\* buffer (time stamps, states, actions, immediate costs and the episode iteration
\* labels) are cut to the same boundary and have equal length, and curr_episode
\* indexes the last retained entry.
C21_TruncationAligned ==
    (log.op = "__init__" /\ log.outcome = "reverted")
    => /\ Len(experience.states) = Len(experience.time_stamps)
       /\ Len(experience.actions) = Len(experience.time_stamps)
       /\ Len(experience.immediate_cost) = Len(experience.time_stamps)
       /\ Len(experience.episode_labels) = Len(experience.time_stamps)
       /\ experience.curr_episode = Len(experience.time_stamps) - 1

\* C23: after any sequence of apply_controller, train_policy and save calls that
\* ends with save, the persisted learner state is the learner's current state
\* (get_state()): no change of n_episodes, H, learning_iteration or n_evals is lost
\* to the state_changed guard of save.
C23_SavedStateIsCurrent ==
    (log.op = "save" /\ params.run = 1)
    => [n_episodes |-> n_episodes, H |-> H,
        learning_iteration |-> learning_iteration, n_evals |-> n_evals]
          = IF disk.state.exists
            THEN disk.state.s
            ELSE [n_episodes |-> 0, H |-> params.H,
                  learning_iteration |-> 0, n_evals |-> 0]

\* C24: whenever best_p = [value, params] is written (baseline, loss evaluation or
\* stochastic update), the stored value is the value at exactly the stored
\* parameters; in the stochastic loop the parameters stored are those at which the
\* value was computed, not the ones after the update.
C24_BestPairConsistent ==
    (log.op = "train_policy" /\ best_p.set)
    => value_fn[best_p.p] = best_p.v

C25_BackwardUsesForwardPairs ==
    (log.op = "PDDP.train_policy" /\ pc \in {"pddp_backward", "pddp_jac"})
    => /\ \A j \in 1..Len(loc.backward) :
             /\ loc.backward[j].t = params.nominal_H - j
             /\ loc.backward[j].u \in 0..(params.nominal_H - 1)
             /\ loc.backward[j] = loc.forward[loc.backward[j].t + 1]
       /\ (pc = "pddp_backward" /\ loc.backward = <<>>)
             => loc.V = [V |-> "m_cost[-1]", Vx |-> "zeros", Vxx |-> "zeros"]
       /\ (pc = "pddp_jac" /\ loc.fn # 0)
             => Len(loc.backward) = params.nominal_H

====
